---- MODULE Spec2Model ----
(***************************************************************************)
(* Model of main.c of the XMC I2C master/slave example: the SysTick        *)
(* handler that sends a one-byte command every 500 ticks over the I2C      *)
(* master channel, the slave receive handler that drives the user LED,     *)
(* and main(), together with the USIC hardware both handlers talk to.      *)
(***************************************************************************)
EXTENDS Integers, Sequences, FiniteSets, TLC

(* ---------------------------------------------------------------------- *)
(* Bounds of the model                                                     *)
(* ---------------------------------------------------------------------- *)
\* number of send transactions the model lets SysTick_Handler start
MaxTx == 2
\* timer periods counted while one invocation of SysTick_Handler is blocked
MaxBlockedTicks == 2
\* receive events of the slave in the receiver harness (SpecRx)
MaxRxEvents == 2

(* ---------------------------------------------------------------------- *)
(* Program constants                                                       *)
(* ---------------------------------------------------------------------- *)
I2C_MASTER_SEND_TASK_MS == 500
CMD_LED_HIGH == 170
CMD_LED_LOW == 85
\* uint8_t values
Byte == 0..255

\* the result of cybsp_init(): CY_RSLT_SUCCESS or an error code
CyResults == {"CY_RSLT_SUCCESS", "CY_RSLT_ERROR"}

VARIABLES
    mainpc,          \* position of main(): "start", "init_done", "irq_on", "loop", "halted"
    result,          \* main's local result ("unset" before cybsp_init returns)
    assertsEnabled,  \* build configuration: CY_ASSERT active (debug) or compiled out (NDEBUG)
    irqEnabled,      \* NVIC: the slave receive interrupt is enabled
    systickOn,       \* SysTick timer configured and counting
    tickPending,     \* SysTick exception pending
    pc,              \* position of SysTick_Handler: "idle", "wait_ack1", "wait_ack2", "wait_fifo"
    tx_master_send,  \* static uint8_t tx_master_send of SysTick_Handler
    ticks,           \* static uint32_t ticks of SysTick_Handler
    ticks_global,    \* file-scope static volatile uint32_t ticks (shadowed, never used)
    txfifo,          \* master channel: transmit buffer entries not yet shifted out
    ackFlag,         \* master channel: XMC_I2C_CH_STATUS_FLAG_ACK_RECEIVED
    busBusy,         \* bus: between START and STOP
    slaveAlive,      \* the slave still answers with acknowledgements
    rxfifo,          \* slave channel: received bytes not yet read by the handler
    rx_slave_receive,\* last byte read by the receive handler, <<>> before the first
    led,             \* output level of the user LED pin (TRUE = high)
    invocations,     \* number of invocations of SysTick_Handler so far
    blockedTicks,    \* timer periods elapsed while the current transaction was blocked
    nStart,          \* STARTs issued by the sender
    nData,           \* data bytes handed to XMC_I2C_CH_MasterTransmit
    nStop,           \* STOPs issued by the sender
    sent,            \* the data bytes transmitted, each with the invocation that sent it
    trace,           \* the sender's operations in the current (or last) transaction
    rxCount,         \* number of invocations of the receive handler so far
    rxRepeat,        \* the last invocation read the same byte as the one before it
    recording        \* the history counters (invocations, nStart, ..., rxCount) are kept

senderVars == <<pc, tx_master_send, ticks, ticks_global, invocations, nStart, nData,
                nStop, sent, trace>>
busVars == <<txfifo, ackFlag, busBusy>>
mainVars == <<mainpc, result, assertsEnabled, irqEnabled, systickOn, recording>>
rxVars == <<rxfifo, rx_slave_receive, led, rxCount, rxRepeat>>
vars == <<mainpc, result, assertsEnabled, irqEnabled, systickOn, tickPending, pc,
          tx_master_send, ticks, ticks_global, txfifo, ackFlag, busBusy, slaveAlive,
          rxfifo, rx_slave_receive, led, invocations, blockedTicks, nStart, nData,
          nStop, sent, trace, rxCount, rxRepeat, recording>>

(* ---------------------------------------------------------------------- *)
(* Pure pieces of the handlers                                             *)
(* ---------------------------------------------------------------------- *)
\* a switch that lost its second case
NextCommand_OneWay(c) ==
    CASE c = CMD_LED_LOW -> CMD_LED_HIGH
      [] OTHER -> c

\* a switch with a mistyped command pattern
NextCommand_Typo(c) ==
    CASE c = CMD_LED_LOW -> 165
      [] c = CMD_LED_HIGH -> CMD_LED_LOW
      [] OTHER -> c

\* a switch whose cases assign the value they test
NextCommand_NoFlip(c) == c

\* the switch of SysTick_Handler that prepares the next command (no default)
NextCommand(c) ==
    CASE c = CMD_LED_LOW -> CMD_LED_HIGH
      [] c = CMD_LED_HIGH -> CMD_LED_LOW
      [] OTHER -> c

\* a threshold test that is off by one
SendDue_Early(t) == t = I2C_MASTER_SEND_TASK_MS - 1

\* an if/else in place of the switch: every other byte drives the pin low
LedAfter_Else(b, l) == b = CMD_LED_HIGH

\* a receiver that toggles the pin on a command
LedAfter_Toggle(b, l) ==
    CASE b = CMD_LED_HIGH -> ~l
      [] b = CMD_LED_LOW -> ~l
      [] OTHER -> l

\* the test that starts a send transaction
SendDue(t) == t = I2C_MASTER_SEND_TASK_MS

\* the switch of the receive handler: the LED level after byte b, from level l
LedAfter(b, l) ==
    CASE b = CMD_LED_HIGH -> TRUE
      [] b = CMD_LED_LOW -> FALSE
      [] OTHER -> l

\* a history counter after one more event; without recording it stands still,
\* so that the program can be run without end in a finite state space
Count(n) == IF recording THEN n + 1 ELSE n

\* bytes the slave's receive buffer holds; a byte arriving at a full buffer is
\* lost.  No run that MaxTx bounds fills it.
RxDepth == MaxTx

\* entries of the master's transmit buffer
StartEntry == [op |-> "START", val |-> "I2C_SLAVE_SLAVE_ADDRESS|WRITE"]
DataEntry(b) == [op |-> "DATA", val |-> b]
StopEntry == [op |-> "STOP", val |-> "-"]

(* ---------------------------------------------------------------------- *)
(* Initial state: reset, before main() runs                                *)
(* ---------------------------------------------------------------------- *)
InitState ==
    /\ mainpc = "start"
    /\ result = "unset"
    /\ assertsEnabled \in BOOLEAN
    /\ irqEnabled = FALSE
    /\ systickOn = FALSE
    /\ tickPending = FALSE
    /\ pc = "idle"
    /\ tx_master_send = CMD_LED_LOW
    /\ ticks = 0
    /\ ticks_global = 0
    /\ txfifo = <<>>
    /\ ackFlag = FALSE
    /\ busBusy = FALSE
    /\ slaveAlive = TRUE
    /\ rxfifo = <<>>
    /\ rx_slave_receive = <<>>
    /\ led \in BOOLEAN
    /\ invocations = 0
    /\ blockedTicks = 0
    /\ nStart = 0
    /\ nData = 0
    /\ nStop = 0
    /\ sent = <<>>
    /\ trace = <<>>
    /\ rxCount = 0
    /\ rxRepeat = FALSE

Init ==
    /\ InitState
    /\ recording = TRUE

(* ---------------------------------------------------------------------- *)
(* main()                                                                  *)
(* ---------------------------------------------------------------------- *)
\* result = cybsp_init(); if (result != CY_RSLT_SUCCESS) CY_ASSERT(0);
\* CY_ASSERT halts in a build with assertions and is empty with NDEBUG.
Main_cybsp_init ==
    /\ mainpc = "start"
    /\ \E r \in CyResults :
         /\ result' = r
         /\ mainpc' = IF r # "CY_RSLT_SUCCESS" /\ assertsEnabled
                      THEN "halted" ELSE "init_done"
    /\ UNCHANGED <<assertsEnabled, recording, irqEnabled, systickOn, tickPending, slaveAlive,
                   blockedTicks>>
    /\ UNCHANGED <<senderVars, busVars, rxVars>>

\* NVIC_SetPriority(...); NVIC_EnableIRQ(I2C_SLAVE_RECEIVE_EVENT_IRQN);
Main_EnableIRQ ==
    /\ mainpc = "init_done"
    /\ irqEnabled' = TRUE
    /\ mainpc' = "irq_on"
    /\ UNCHANGED <<result, assertsEnabled, recording, systickOn, tickPending, slaveAlive,
                   blockedTicks>>
    /\ UNCHANGED <<senderVars, busVars, rxVars>>

\* SysTick_Config(SystemCoreClock / TICKS_PER_SECOND); while(1);
Main_SysTick_Config ==
    /\ mainpc = "irq_on"
    /\ systickOn' = TRUE
    /\ mainpc' = "loop"
    /\ UNCHANGED <<result, assertsEnabled, recording, irqEnabled, tickPending, slaveAlive,
                   blockedTicks>>
    /\ UNCHANGED <<senderVars, busVars, rxVars>>

(* ---------------------------------------------------------------------- *)
(* SysTick timer and SysTick_Handler                                       *)
(* ---------------------------------------------------------------------- *)
\* The timer period elapses.  With the handler idle the exception becomes
\* pending; while the handler is still executing the period is only counted
\* (the exception stays pending once, further periods are lost).
HwTimerFire ==
    /\ systickOn
    /\ \/ /\ pc = "idle"
          /\ ~tickPending
          /\ tickPending' = TRUE
          /\ UNCHANGED blockedTicks
       \/ /\ pc # "idle"
          /\ blockedTicks < MaxBlockedTicks
          /\ tickPending' = TRUE
          /\ blockedTicks' = blockedTicks + 1
    /\ UNCHANGED <<slaveAlive>>
    /\ UNCHANGED <<mainVars, senderVars, busVars, rxVars>>

\* Entry of SysTick_Handler up to its return or its first wait loop:
\* ticks++; if (ticks == 500) { switch; XMC_I2C_CH_MasterStart(...); while(no ACK) }
SysTick_HandlerWhen(canEnter) ==
    /\ tickPending
    /\ canEnter
    /\ LET t == ticks + 1 IN   \* uint32_t; TickInRange shows it stays far below 2^32
         /\ (recording /\ SendDue(t)) => nStart < MaxTx
         /\ ticks' = t
         /\ IF SendDue(t)
            THEN /\ tx_master_send' = NextCommand(tx_master_send)
                 /\ txfifo' = Append(txfifo, StartEntry)
                 /\ nStart' = Count(nStart)
                 /\ trace' = <<"FLIP", "START">>
                 /\ blockedTicks' = 0
                 /\ pc' = "wait_ack1"
            ELSE /\ UNCHANGED <<tx_master_send, txfifo, nStart, trace, blockedTicks, pc>>
    /\ tickPending' = FALSE
    /\ invocations' = Count(invocations)
    /\ UNCHANGED <<ticks_global, nData, nStop, sent, ackFlag, busBusy, slaveAlive>>
    /\ UNCHANGED <<mainVars, rxVars>>

\* a SysTick exception that preempts its own handler
SysTick_Handler_Reentrant == SysTick_HandlerWhen(TRUE)

\* The exception is taken only with no invocation of the handler active: an
\* exception does not preempt a handler of its own priority.
SysTick_Handler == SysTick_HandlerWhen(pc = "idle")

\* Leaving the first wait loop: ACK seen, flag cleared, command transmitted.
AckWait1ExitWhen(seen) ==
    /\ pc = "wait_ack1"
    /\ seen
    /\ ackFlag' = FALSE
    /\ txfifo' = Append(txfifo, DataEntry(tx_master_send))
    /\ nData' = Count(nData)
    /\ sent' = IF recording
               THEN Append(sent, [data |-> tx_master_send, invocation |-> invocations])
               ELSE sent
    /\ trace' = trace \o <<"ACK", "CLEAR", "DATA">>
    /\ pc' = "wait_ack2"
    /\ UNCHANGED <<tx_master_send, ticks, ticks_global, invocations, nStart, nStop,
                   busBusy, slaveAlive, tickPending, blockedTicks>>
    /\ UNCHANGED <<mainVars, rxVars>>

\* a wait loop that also gives up after one timer period
AckWait1Exit_Timeout == AckWait1ExitWhen(ackFlag \/ blockedTicks >= 1)

AckWait1Exit == AckWait1ExitWhen(ackFlag)

\* Leaving the second wait loop: ACK seen, flag cleared.
AckWait2ExitWhen(seen) ==
    /\ pc = "wait_ack2"
    /\ seen
    /\ ackFlag' = FALSE
    /\ trace' = trace \o <<"ACK", "CLEAR">>
    /\ pc' = "wait_fifo"
    /\ UNCHANGED <<tx_master_send, ticks, ticks_global, invocations, nStart, nData,
                   nStop, sent, txfifo, busBusy, slaveAlive, tickPending, blockedTicks>>
    /\ UNCHANGED <<mainVars, rxVars>>

\* a second wait whose loop test is inverted
AckWait2Exit_Inverted == AckWait2ExitWhen(~ackFlag)

\* a second wait that leaves the flag set
AckWait2Exit_NoClear ==
    /\ pc = "wait_ack2"
    /\ ackFlag
    /\ trace' = trace \o <<"ACK", "CLEAR">>
    /\ pc' = "wait_fifo"
    /\ UNCHANGED <<tx_master_send, ticks, ticks_global, invocations, nStart, nData, nStop,
                   sent, txfifo, ackFlag, busBusy, slaveAlive, tickPending, blockedTicks>>
    /\ UNCHANGED <<mainVars, rxVars>>

\* a second wait that does not wait
AckWait2Exit_NoWait == AckWait2ExitWhen(TRUE)

AckWait2Exit == AckWait2ExitWhen(ackFlag)

\* Leaving the TX FIFO wait: STOP issued, ticks reset to t, handler returns.
TxFifoWaitExitTo(t) ==
    /\ pc = "wait_fifo"
    /\ txfifo = <<>>
    /\ txfifo' = Append(txfifo, StopEntry)
    /\ nStop' = Count(nStop)
    /\ ticks' = t
    /\ trace' = trace \o <<"FIFO_EMPTY", "STOP", "RESET">>
    /\ pc' = "idle"
    /\ UNCHANGED <<tx_master_send, ticks_global, invocations, nStart, nData, sent,
                   ackFlag, busBusy, slaveAlive, tickPending, blockedTicks>>
    /\ UNCHANGED <<mainVars, rxVars>>

\* a reset that makes up for the timer periods missed while blocked
TxFifoWaitExit_KeepsElapsed == TxFifoWaitExitTo(blockedTicks)

\* a handler that returns without resetting its counter
TxFifoWaitExit_NoReset == TxFifoWaitExitTo(ticks)

\* a handler that returns after the TX FIFO wait without the STOP
TxFifoWaitExit_NoStop ==
    /\ pc = "wait_fifo"
    /\ txfifo = <<>>
    /\ ticks' = 0
    /\ trace' = trace \o <<"FIFO_EMPTY", "RESET">>
    /\ pc' = "idle"
    /\ UNCHANGED <<tx_master_send, ticks_global, invocations, nStart, nData, nStop, sent,
                   txfifo, ackFlag, busBusy, slaveAlive, tickPending, blockedTicks>>
    /\ UNCHANGED <<mainVars, rxVars>>

TxFifoWaitExit == TxFifoWaitExitTo(0)

(* ---------------------------------------------------------------------- *)
(* The bus: master shift unit and slave                                    *)
(* ---------------------------------------------------------------------- *)
\* The master shifts out the oldest entry of its transmit buffer.  A live
\* slave acknowledges its address and every data byte, and stores the byte.
HwMasterShift ==
    /\ txfifo # <<>>
    /\ LET e == Head(txfifo) IN
         /\ txfifo' = Tail(txfifo)
         /\ busBusy' = (e.op # "STOP")
         /\ ackFlag' = IF e.op # "STOP" /\ slaveAlive THEN TRUE ELSE ackFlag
         /\ rxfifo' = IF e.op = "DATA" /\ slaveAlive /\ Len(rxfifo) < RxDepth
                      THEN Append(rxfifo, e.val) ELSE rxfifo
    /\ UNCHANGED <<rx_slave_receive, led, rxCount, rxRepeat, slaveAlive, tickPending,
                   blockedTicks>>
    /\ UNCHANGED <<mainVars, senderVars>>

\* The slave stops answering (unplugged wire, held in reset, ...).
SlaveFail ==
    /\ slaveAlive
    /\ slaveAlive' = FALSE
    /\ UNCHANGED <<tickPending, blockedTicks>>
    /\ UNCHANGED <<mainVars, senderVars, busVars, rxVars>>

(* ---------------------------------------------------------------------- *)
(* I2C_SLAVE_RECEIVE_EVENT_HANDLER                                         *)
(* ---------------------------------------------------------------------- *)
\* uint8_t rx_slave_receive = XMC_I2C_CH_GetReceivedData(I2C_SLAVE_HW); switch
ReceiveAndSetLed ==
    /\ irqEnabled
    /\ rxfifo # <<>>
    /\ LET b == Head(rxfifo) IN
         /\ rx_slave_receive' = <<b>>
         /\ rxRepeat' = (rx_slave_receive = <<b>>)
         /\ led' = LedAfter(b, led)
    /\ rxfifo' = Tail(rxfifo)
    /\ rxCount' = Count(rxCount)
    /\ UNCHANGED <<slaveAlive, tickPending, blockedTicks>>
    /\ UNCHANGED <<mainVars, busVars>>

\* a receiver that keeps the received command in the sender's variable
I2C_SLAVE_RECEIVE_EVENT_HANDLER_SharesCommand ==
    /\ ReceiveAndSetLed
    /\ tx_master_send' = Head(rxfifo)
    /\ UNCHANGED <<pc, ticks, ticks_global, invocations, nStart, nData, nStop, sent, trace>>

I2C_SLAVE_RECEIVE_EVENT_HANDLER ==
    /\ ReceiveAndSetLed
    /\ UNCHANGED senderVars

(* ---------------------------------------------------------------------- *)
(* Specification of the whole program                                      *)
(* ---------------------------------------------------------------------- *)
Next ==
    \/ Main_cybsp_init
    \/ Main_EnableIRQ
    \/ Main_SysTick_Config
    \/ HwTimerFire
    \/ SysTick_Handler
    \/ AckWait1Exit
    \/ AckWait2Exit
    \/ TxFifoWaitExit
    \/ HwMasterShift
    \/ SlaveFail
    \/ I2C_SLAVE_RECEIVE_EVENT_HANDLER

Spec == Init /\ [][Next]_vars

(* ---------------------------------------------------------------------- *)
(* The program running without end, with a slave that always answers       *)
(* ---------------------------------------------------------------------- *)
InitLive ==
    /\ InitState
    /\ recording = FALSE

\* The 1 ms timer period against the bus and the interrupt latency: between
\* two invocations of the handler the bus has shifted out what the master
\* queued and the receive interrupt has been served.
HwTimerFireInTime ==
    /\ pc = "idle" => (txfifo = <<>> /\ rxfifo = <<>>)
    /\ HwTimerFire

NextLive ==
    \/ Main_cybsp_init
    \/ Main_EnableIRQ
    \/ Main_SysTick_Config
    \/ HwTimerFireInTime
    \/ SysTick_Handler
    \/ AckWait1Exit
    \/ AckWait2Exit
    \/ TxFifoWaitExit
    \/ HwMasterShift
    \/ I2C_SLAVE_RECEIVE_EVENT_HANDLER

\* The processor keeps executing main() and the handlers, pending interrupts
\* are taken, the timer keeps counting and the bus hardware keeps shifting.
LiveFairness ==
    /\ WF_vars(Main_cybsp_init)
    /\ WF_vars(Main_EnableIRQ)
    /\ WF_vars(Main_SysTick_Config)
    /\ WF_vars(HwTimerFireInTime)
    /\ WF_vars(SysTick_Handler)
    /\ WF_vars(AckWait1Exit)
    /\ WF_vars(AckWait2Exit)
    /\ WF_vars(TxFifoWaitExit)
    /\ WF_vars(HwMasterShift)
    /\ WF_vars(I2C_SLAVE_RECEIVE_EVENT_HANDLER)

LiveSpec == InitLive /\ [][NextLive]_vars /\ LiveFairness

(* ---------------------------------------------------------------------- *)
(* Receiver harness: any byte may arrive at the slave                      *)
(* ---------------------------------------------------------------------- *)
\* Some master on the bus writes byte b to the slave.
BusDeliver(b) ==
    /\ rxCount + Len(rxfifo) < MaxRxEvents
    /\ Len(rxfifo) < 1
    /\ rxfifo' = Append(rxfifo, b)
    /\ UNCHANGED <<rx_slave_receive, led, rxCount, rxRepeat, slaveAlive, tickPending,
                   blockedTicks>>
    /\ UNCHANGED <<mainVars, senderVars, busVars>>

InitRx ==
    /\ Init
    /\ assertsEnabled

NextRx ==
    \/ Main_cybsp_init
    \/ Main_EnableIRQ
    \/ \E b \in Byte : BusDeliver(b)
    \/ I2C_SLAVE_RECEIVE_EVENT_HANDLER

SpecRx == InitRx /\ [][NextRx]_vars

\* the counter never leaves 0..500, so the 32-bit increment never wraps
TickInRange == ticks \in 0..I2C_MASTER_SEND_TASK_MS

TypeOK ==
    /\ mainpc \in {"start", "init_done", "irq_on", "loop", "halted"}
    /\ pc \in {"idle", "wait_ack1", "wait_ack2", "wait_fifo"}
    /\ tx_master_send \in Byte
    /\ ticks \in 0..I2C_MASTER_SEND_TASK_MS
    /\ led \in BOOLEAN
    /\ ackFlag \in BOOLEAN

(* ---------------------------------------------------------------------- *)
(* Properties                                                              *)
(* ---------------------------------------------------------------------- *)
\* the command the N-th transaction is expected to carry
ExpectedCommand(n) == IF n % 2 = 1 THEN CMD_LED_HIGH ELSE CMD_LED_LOW

\* C1: from the initial state (command LED_LOW, counter 0) the data byte handed
\* to the master transmit operation in the N-th send transaction is LED_HIGH
\* for odd N and LED_LOW for even N.
C1_CommandAlternates ==
    \A n \in 1..Len(sent) : sent[n].data = ExpectedCommand(n)

\* an odd and an even transaction have both transmitted their byte
C1_Witness == Len(sent) = 2 /\ nStop = 2

\* C2: for every byte read by the receive handler and every prior LED level,
\* after the handler the LED is high for 0xAA, low for 0x55 and at its prior
\* level for any other byte.
C2_LedFollowsByte ==
    [][rxCount' # rxCount =>
         /\ Head(rxfifo) = 170 => led'
         /\ Head(rxfifo) = 85 => ~led'
         /\ Head(rxfifo) \notin {170, 85} => led' = led]_vars

\* the handler has read 0xAA and then a byte that is no command, LED still high
C2_Witness ==
    /\ rxCount = 2
    /\ rx_slave_receive = <<3>>
    /\ led

\* C3: with an acknowledging slave the k-th data byte is transmitted during
\* invocation 500*k of the tick handler and is 0xAA for odd k, 0x55 for even
\* k, and after the receiver has handled the k-th byte the LED is high iff k
\* is odd.
C3_EndToEnd ==
    /\ \A k \in 1..Len(sent) :
          /\ sent[k].invocation = 500 * k
          /\ sent[k].data = ExpectedCommand(k)
    /\ nStart = invocations \div 500
    /\ rxCount >= 1 =>
          /\ rx_slave_receive = <<ExpectedCommand(rxCount)>>
          /\ led = (rxCount % 2 = 1)

\* the second byte went out in invocation 1000 and the receiver set the LED low
C3_Witness ==
    /\ Len(sent) = 2
    /\ invocations = 1000
    /\ rxCount = 2
    /\ ~led

\* C4: whenever a send transaction completes (STOP issued) the tick counter is
\* 0 when the handler returns, however many timer periods passed while the
\* waits were blocked.
C4_TicksResetAfterStop ==
    [][nStop' # nStop => (pc' = "idle" /\ ticks' = 0)]_vars

\* a transaction has completed after two timer periods passed during its waits
C4_Witness ==
    /\ nStop = 1
    /\ pc = "idle"
    /\ invocations = 500
    /\ blockedTicks >= 2
    /\ ticks = 0

\* C5: if after a START the slave never raises the acknowledgement flag, the
\* sender stays in the ACK wait loop for ever: no (further) data byte, no
\* STOP, no reset of the tick counter and no later invocation of the handler.
C5_BlockedWithoutAck ==
    [][(pc \in {"wait_ack1", "wait_ack2"} /\ ~slaveAlive /\ ~ackFlag) =>
         /\ pc' = pc
         /\ ~slaveAlive' /\ ~ackFlag'
         /\ UNCHANGED <<ticks, tx_master_send, invocations, nStart, nData, nStop, sent>>]_vars

\* the address of the second transaction is never acknowledged: the sender sits
\* in the first wait with timer periods passing, and no byte has been sent
C5_Witness ==
    /\ pc = "wait_ack1"
    /\ ~slaveAlive /\ ~ackFlag
    /\ txfifo = <<>>
    /\ nStart = 2 /\ nData = 1 /\ nStop = 1
    /\ blockedTicks >= 2 /\ tickPending
    /\ ticks = 500

\* C6: the receive handler is idempotent on the LED: handling the same byte
\* twice in a row leaves the LED after the second handling as after the first.
C6_RepeatKeepsLed ==
    [][(rxCount' # rxCount /\ rx_slave_receive = <<Head(rxfifo)>>) => led' = led]_vars

\* 0xAA has been handled twice in a row and the LED is high
C6_Witness ==
    /\ rxCount = 2
    /\ rxRepeat
    /\ rx_slave_receive = <<170>>
    /\ led

\* C7: if cybsp_init returns another result than success, main halts at the
\* assertion: the receive interrupt is never enabled, the tick timer never
\* configured, no START is issued and the LED never changes.
C7_InitFailureHalts ==
    result = "CY_RSLT_ERROR" =>
        /\ mainpc = "halted"
        /\ ~irqEnabled /\ ~systickOn
        /\ nStart = 0 /\ rxCount = 0

\* what the sender's variables are, given the sender's own progress alone
SenderStateFromProgress ==
    /\ tx_master_send = (IF nStart % 2 = 1 THEN CMD_LED_HIGH ELSE CMD_LED_LOW)
    /\ ticks = IF pc = "idle" THEN invocations - 500 * nStop ELSE 500

\* C8: the two interrupt contexts share no mutable state: the stored command
\* and the tick counter change only in steps of SysTick_Handler, the receive
\* handler changes only the LED (and its own receive buffer) and issues no bus
\* operation, and the sender's variables depend on the sender's progress alone.
C8_NoSharedState ==
    /\ [][rxCount' # rxCount =>
            UNCHANGED <<senderVars, busVars, tickPending, blockedTicks, mainVars>>]_vars
    /\ [][(tx_master_send' # tx_master_send \/ ticks' # ticks) =>
            (invocations' # invocations \/ nStop' # nStop) /\ rxCount' = rxCount]_vars
    /\ [](SenderStateFromProgress)

\* the receive handler ran while the sender was inside a transaction
C8_Witness ==
    /\ rxCount = 1
    /\ pc = "wait_ack1"
    /\ nStart = 2
    /\ tx_master_send = CMD_LED_LOW
    /\ led

\* C9: an invocation of SysTick_Handler whose incremented counter is not 500
\* only increments the counter: command unchanged, no START, data byte, flag
\* clear or STOP, LED unchanged.
C9_QuietTick ==
    [][(invocations' # invocations /\ ticks' # 500) =>
         /\ ticks' = ticks + 1
         /\ pc' = "idle"
         /\ UNCHANGED <<tx_master_send, ticks_global, nStart, nData, nStop, sent, trace>>
         /\ UNCHANGED <<busVars, rxVars>>]_vars

\* the invocation after a completed transaction has only counted
C9_Witness ==
    /\ invocations = 501
    /\ ticks = 1
    /\ pc = "idle"
    /\ nStart = 1 /\ nStop = 1

\* the order of the sender's operations in one transaction
TransactionOrder ==
    <<"FLIP", "START", "ACK", "CLEAR", "DATA", "ACK", "CLEAR", "FIFO_EMPTY", "STOP", "RESET">>

\* C10: in every transaction the sender's operations occur in the order flip,
\* START, ACK seen, clear, data byte, ACK seen, clear, TX FIFO empty, STOP,
\* reset; the data byte is never transmitted before the address ACK was seen
\* and STOP never before the data ACK was seen and the TX FIFO is empty.
C10_TransactionOrder ==
    [][/\ trace' = SubSeq(TransactionOrder, 1, Len(trace'))
       /\ (pc # "idle" /\ pc' = "idle") => trace' = TransactionOrder
       /\ nData' # nData => (ackFlag /\ ~ackFlag' /\ nData' = nStart)
       /\ (pc = "wait_ack2" /\ pc' # pc) => (ackFlag /\ ~ackFlag')
       /\ nStop' # nStop => (pc = "wait_fifo" /\ txfifo = <<>> /\ nStop' = nData)]_vars

\* a transaction has run to its end
C10_Witness ==
    /\ trace = TransactionOrder
    /\ nStop = 2
    /\ pc = "idle"
\* the stored command after n flips from the initial CMD_LED_LOW
CommandAfter(n) == IF n % 2 = 1 THEN CMD_LED_HIGH ELSE CMD_LED_LOW

\* a transaction whose acknowledgement will never come
NeverCompletes == pc \in {"wait_ack1", "wait_ack2"} /\ ~slaveAlive /\ ~ackFlag

\* C11 as stated: the stored command changes once for each transaction that
\* completes through STOP and not otherwise, so with no transaction running,
\* or with one that never completes, it has flipped once per STOP issued.
C11_FlipsPerCompletedSend ==
    (pc = "idle" \/ NeverCompletes) => tx_master_send = CommandAfter(nStop)

\* C11 amended: the stored command changes exactly once for each transaction
\* started, in the step that issues its START, and in no other step; a
\* transaction that never completes leaves it at the flipped value.
C11_FlipsPerStartedSend ==
    /\ [](tx_master_send = CommandAfter(nStart))
    /\ [][(tx_master_send' # tx_master_send) <=> (nStart' # nStart)]_vars

\* the first transaction hangs in its address wait with the command already
\* flipped to CMD_LED_HIGH
C11_Witness ==
    /\ NeverCompletes
    /\ pc = "wait_ack1"
    /\ nStart = 1 /\ nStop = 0
    /\ tx_master_send = CMD_LED_HIGH
\* C12: every bus transaction is START, one data byte, STOP: a START is issued
\* only when every earlier START has its STOP, a STOP only after exactly one
\* data byte since the START, STARTs minus STOPs is 0 or 1 in every state, and
\* on the wire a START is shifted out only with the bus released by a STOP.
C12_TransactionShape ==
    /\ [](nStart - nStop \in {0, 1} /\ nStop <= nData /\ nData <= nStart)
    /\ [][nStart' # nStart => (nStart = nStop /\ nData = nStop)]_vars
    /\ [][nData' # nData => (nData' = nStart /\ nStop = nData)]_vars
    /\ [][nStop' # nStop => (nStop' = nData /\ nData = nStart)]_vars
    /\ [][(txfifo # <<>> /\ txfifo' = Tail(txfifo) /\ Head(txfifo).op = "START")
            => ~busBusy]_vars

\* the second transaction is between its data byte and its STOP
C12_Witness ==
    /\ nStart = 2 /\ nData = 2 /\ nStop = 1
    /\ pc = "wait_fifo"
    /\ busBusy
\* C13: the tick handler is not re-entered: an invocation begins only with no
\* invocation executing, so timer periods that pass while a transaction is
\* blocked do not increment the tick counter, and at most one transaction is
\* in progress.
C13_NonReentrant ==
    /\ [][invocations' # invocations => pc = "idle"]_vars
    /\ [][(pc # "idle" /\ blockedTicks' # blockedTicks) =>
            (ticks' = ticks /\ invocations' = invocations)]_vars
    /\ [](pc # "idle" => ticks = 500)
    /\ [](nStart - nStop <= 1)

\* two timer periods have passed inside the first transaction, the exception
\* is pending and the counter still is 500 after 500 invocations
C13_Witness ==
    /\ pc = "wait_ack2"
    /\ blockedTicks >= 2 /\ tickPending
    /\ ticks = 500 /\ invocations = 500
\* C14: the sender leaves an acknowledgement wait only from a state with the
\* ACK-received flag set, and only into the next step of the transaction: no
\* timeout, cancellation or error branch leads out of either wait.
C14_WaitLeftOnlyOnAck ==
    /\ [][(pc \in {"wait_ack1", "wait_ack2"} /\ pc' # pc) => ackFlag]_vars
    /\ [][(pc = "wait_ack1" /\ pc' # pc) => (pc' = "wait_ack2" /\ nData' = nData + 1)]_vars
    /\ [][(pc = "wait_ack2" /\ pc' # pc) => (pc' = "wait_fifo" /\ nStop' = nStop)]_vars

\* both waits of a transaction have been left, with timer periods passing
C14_Witness ==
    /\ pc = "wait_fifo"
    /\ nData = 1
    /\ blockedTicks >= 1
\* C15: with ticks arriving, a slave that acknowledges every START and data
\* byte and a TX FIFO that drains, every started transaction reaches its STOP
\* and the handler returns, and once main() is in its loop a new transaction
\* starts again and again: there is no terminal state.
C15_TransactionsForEver ==
    /\ (pc = "wait_ack1") ~> (pc = "wait_ack2")
    /\ (pc = "wait_ack2") ~> (pc = "wait_fifo")
    /\ (pc = "wait_fifo") ~> (pc = "idle" /\ ticks = 0)
    /\ (mainpc = "loop") ~> (pc = "wait_ack1")

\* two transactions are complete and the third is one tick away
C15_Witness ==
    /\ ~recording
    /\ pc = "idle"
    /\ trace = TransactionOrder
    /\ tx_master_send = CMD_LED_LOW
    /\ rx_slave_receive = <<85>>
    /\ ticks = 499
\* C16: whenever SysTick_Handler is not executing the tick counter is in
\* 0..499; during execution it never exceeds 500, so the test against 500 is
\* never skipped over and the counter never overflows.
C16_TickRange ==
    /\ [](pc = "idle" => ticks \in 0..499)
    /\ [](ticks \in 0..500)
    /\ [][ticks' # ticks => (ticks' = ticks + 1 \/ (ticks = 500 /\ ticks' = 0))]_vars

\* after a completed transaction the counter has climbed to 499 again
C16_Witness ==
    /\ pc = "idle"
    /\ nStop = 1
    /\ ticks = 499
    /\ invocations = 999
\* C17: in every reachable state the stored command is 0xAA or 0x55, so the
\* flip (a switch without default) changes the value every time and the
\* sender never transmits a byte the receiver would ignore.
C17_CommandLegal ==
    /\ [](tx_master_send \in {170, 85})
    /\ [][nStart' # nStart => (tx_master_send' # tx_master_send)]_vars
    /\ [](\A k \in 1..Len(sent) : sent[k].data \in {170, 85})
    /\ [](\A i \in 1..Len(txfifo) : txfifo[i].op = "DATA" => txfifo[i].val \in {170, 85})
    /\ [](\A i \in 1..Len(rxfifo) : rxfifo[i] \in {170, 85})

\* both commands have been transmitted and the second is at the receiver
C17_Witness ==
    /\ Len(sent) = 2
    /\ tx_master_send = 85
    /\ rxfifo # <<>> /\ rxfifo[Len(rxfifo)] = 85

\* the entries of the transmit buffer that the slave acknowledges
AckedEntries == {i \in 1..Len(txfifo) : txfifo[i].op \in {"START", "DATA"}}

\* C18: no stale acknowledgement is consumed: the ACK flag is clear when the
\* data byte is handed to the master and when STOP is issued, and while the
\* sender is in an ACK wait a set flag means that the byte it waits for has
\* left the transmit buffer, so each wait is satisfied by the acknowledgement
\* of its own byte.
C18_NoStaleAck ==
    /\ [][nData' # nData => ~ackFlag']_vars
    /\ [][nStop' # nStop => (~ackFlag /\ ~ackFlag')]_vars
    /\ [](pc \in {"idle", "wait_fifo"} => ~ackFlag)
    /\ [](ackFlag => (pc \in {"wait_ack1", "wait_ack2"} /\ AckedEntries = {}))
    /\ [][(~ackFlag /\ ackFlag') =>
            (txfifo # <<>> /\ txfifo' = Tail(txfifo)
             /\ Head(txfifo).op = (IF pc = "wait_ack1" THEN "START" ELSE "DATA"))]_vars

\* the data byte of the second transaction has just been acknowledged
C18_Witness ==
    /\ pc = "wait_ack2"
    /\ ackFlag
    /\ nData = 2
    /\ txfifo = <<>>
====
